---------------------------- MODULE Spec2Model ----------------------------
(***************************************************************************)
(* The on-disk Overlay store of eden (eden/fs/inodes/Overlay.cpp).         *)
(*                                                                         *)
(* Bytes are integers 0..255 and file contents are sequences of bytes.     *)
(* File names are sequences of one-character strings.  Inode numbers of    *)
(* the model stay far below 2^31, so the uint64 <-> int64 casts of the     *)
(* thrift structure are the identity on every value that occurs.           *)
(***************************************************************************)
EXTENDS Integers, Sequences, FiniteSets, TLC

(***************************************************************************)
(* Bounds of the model.                                                    *)
(***************************************************************************)
\* inode numbers 0..MaxPathInode are fed to getFilePath
MaxPathInode == 300
\* cap of the toProcess stack of getMaxRecordedInode
MaxStack == 3
\* number of distinct temporary-file suffixes mkstemp can hand out per path
MaxTemps == 2
\* number of process crashes in one behaviour
MaxCrashes == 1

(***************************************************************************)
(* Program constants.                                                      *)
(***************************************************************************)
\* kOverlayVersion
kOverlayVersion == 1
\* FUSE_ROOT_ID
FUSE_ROOT_ID == 1
\* number of shard subdirectories ("for (int n = 0; n < 256; ++n)")
NumShards == 256
\* Overlay::kHeaderVersion (Overlay.h)
kHeaderVersion == 1
\* Overlay::kHeaderLength (Overlay.h)
kHeaderLength == 64

\* localDir_
LocalDir == "localDir"
\* kInfoFile
kInfoFile == <<"i", "n", "f", "o">>
\* kInfoHeaderMagic: a StringPiece built from the literal "\xed\xe0\x00\x01";
\* its length is that of the C string, which ends at the first zero byte,
\* so it holds the two bytes ED E0
kInfoHeaderMagic == <<237, 224>>
\* kInfoHeaderSize = kInfoHeaderMagic.size() + sizeof(kOverlayVersion)
kInfoHeaderSize == Len(kInfoHeaderMagic) + 4
\* Overlay::kHeaderIdentifierDir (Overlay.h): "OVDR\0\0\0\0"
kHeaderIdentifierDir == <<79, 86, 68, 82, 0, 0, 0, 0>>
\* Overlay::kHeaderIdentifierFile (Overlay.h): "OVFL\0\0\0\0"
kHeaderIdentifierFile == <<79, 86, 70, 76, 0, 0, 0, 0>>
\* Hash::RAW_SIZE (model/Hash.h): a source-control hash is 20 bytes
HashSize == 20

(***************************************************************************)
(* Byte and text helpers.                                                  *)
(***************************************************************************)
\* folly::Endian::big / appender.writeBE<uint32_t>: 4 bytes, most significant first
writeBE32(v) ==
  << (v \div 16777216) % 256, (v \div 65536) % 256, (v \div 256) % 256, v % 256 >>

\* cursor.readBE<uint32_t>() / memcpy + Endian::big
readBE32(b) == ((b[1] * 256 + b[2]) * 256 + b[3]) * 256 + b[4]

\* appender.writeBE<uint64_t>: 8 bytes; every value of the model is below 2^32
writeBE64(v) == <<0, 0, 0, 0>> \o writeBE32(v)

\* the low 4 bytes of a big-endian uint64 whose high 4 bytes are zero
readBE64(b) == readBE32(SubSeq(b, 5, 8))

Zeros(k) == [i \in 1..k |-> 0]

\* constexpr char hexdigit[] = "0123456789abcdef"
hexdigit ==
  << "0", "1", "2", "3", "4", "5", "6", "7",
     "8", "9", "a", "b", "c", "d", "e", "f" >>

DecDigits == << "0", "1", "2", "3", "4", "5", "6", "7", "8", "9" >>

\* formatSubdirPath with the nibbles written in the opposite order
formatSubdirPathSwapped(inode) ==
  << hexdigit[(inode % 16) + 1], hexdigit[((inode \div 16) % 16) + 1] >>

\* formatSubdirPath: subdirPath[0] = hexdigit[(inode >> 4) & 0xf];
\*                   subdirPath[1] = hexdigit[inode & 0xf]
formatSubdirPath(inode) ==
  << hexdigit[((inode \div 16) % 16) + 1], hexdigit[(inode % 16) + 1] >>

\* folly::to<string>(inodeNumber): decimal digits, no leading zero
RECURSIVE toDecimalString(_)
toDecimalString(n) ==
  IF n < 10 THEN << DecDigits[n + 1] >>
  ELSE Append(toDecimalString(n \div 10), DecDigits[(n % 10) + 1])

DigitValue(c) == (CHOOSE i \in 1..10 : DecDigits[i] = c) - 1

IsDigit(c) == \E i \in 1..10 : DecDigits[i] = c

RECURSIVE digitsValue(_)
digitsValue(s) ==
  IF Len(s) = 0 THEN 0
  ELSE digitsValue(SubSeq(s, 1, Len(s) - 1)) * 10 + DigitValue(s[Len(s)])

\* folly::tryTo<fuse_ino_t>(name): a value when the whole name is decimal
\* digits, no value (-1 here) otherwise.  The names of the model hold no
\* white space and no number of 2^31 or more.
tryToInode(name) ==
  IF Len(name) > 0 /\ \A i \in 1..Len(name) : IsDigit(name[i])
  THEN digitsValue(name)
  ELSE -1

\* getFilePath naming the file by the low byte of the inode number
getFilePathLowByte(inodeNumber) ==
  << LocalDir, formatSubdirPath(inodeNumber), toDecimalString(inodeNumber % 256) >>

\* Overlay::getFilePath: localDir_ + subdir + decimal inode number
getFilePath(inodeNumber) ==
  << LocalDir, formatSubdirPath(inodeNumber), toDecimalString(inodeNumber) >>

(***************************************************************************)
(* Directory listings.                                                     *)
(*                                                                         *)
(* TreeInode::Dir::entries and overlay::OverlayDir::entries are ordered    *)
(* maps keyed by name: a sequence of records in strictly increasing name   *)
(* order.  An in-memory entry (TreeInode::Entry) is                        *)
(*   [name, mode, materialized, inode, hash]                               *)
(* and a stored entry (overlay::OverlayEntry) is                           *)
(*   [name, mode, inodeNumber, hash].                                      *)
(***************************************************************************)
RECURSIVE LexLess(_, _)
LexLess(a, b) ==
  IF Len(b) = 0 THEN FALSE
  ELSE IF Len(a) = 0 THEN TRUE
  ELSE IF a[1] # b[1] THEN a[1] < b[1]
  ELSE LexLess(Tail(a), Tail(b))

\* std::map::emplace(name, value): insert in name order, keep an existing key
RECURSIVE mapEmplace(_, _)
mapEmplace(m, e) ==
  IF Len(m) = 0 THEN << e >>
  ELSE IF Head(m).name = e.name THEN m
  ELSE IF LexLess(e.name, Head(m).name) THEN << e >> \o m
  ELSE << Head(m) >> \o mapEmplace(Tail(m), e)

\* TreeInode::Entry(mode, hash)
EntryFromHash(name, mode, hash) ==
  [name |-> name, mode |-> mode, materialized |-> FALSE, inode |-> 0, hash |-> hash]

\* TreeInode::Entry(mode, inodeNumber)
EntryFromInode(name, mode, inodeNumber) ==
  [name |-> name, mode |-> mode, materialized |-> TRUE, inode |-> inodeNumber,
   hash |-> << >>]

\* saveOverlayDir, the loop body with the branch on isMaterialized() inverted
toOverlayEntryInverted(ent) ==
  IF ~ent.materialized
  THEN [name |-> ent.name, mode |-> ent.mode, inodeNumber |-> ent.inode,
        hash |-> << >>]
  ELSE [name |-> ent.name, mode |-> ent.mode, inodeNumber |-> 0,
        hash |-> ent.hash]

\* saveOverlayDir, the loop body: one TreeInode::Entry to one OverlayEntry
toOverlayEntry(ent) ==
  IF ent.materialized
  THEN [name |-> ent.name, mode |-> ent.mode, inodeNumber |-> ent.inode,
        hash |-> << >>]
  ELSE [name |-> ent.name, mode |-> ent.mode, inodeNumber |-> 0,
        hash |-> ent.hash]

\* saveOverlayDir, the loop: odir.entries.emplace(name, oent) for every entry
RECURSIVE toOverlayDir(_)
toOverlayDir(dir) ==
  IF Len(dir) = 0 THEN << >>
  ELSE mapEmplace(toOverlayDir(SubSeq(dir, 1, Len(dir) - 1)),
                  toOverlayEntry(dir[Len(dir)]))

(***************************************************************************)
(* CompactSerializer.  The byte grammar used here: one count byte, then    *)
(* per entry a length-prefixed name, the mode (4 bytes), the inode number  *)
(* (8 bytes) and a length-prefixed hash.                                   *)
(***************************************************************************)
serializeEntry(oent) ==
  << Len(oent.name) >> \o oent.name \o writeBE32(oent.mode)
    \o writeBE64(oent.inodeNumber) \o << Len(oent.hash) >> \o oent.hash

RECURSIVE serializeEntries(_)
serializeEntries(odir) ==
  IF Len(odir) = 0 THEN << >>
  ELSE serializeEntry(Head(odir)) \o serializeEntries(Tail(odir))

\* CompactSerializer::serialize<std::string>(odir)
CompactSerialize(odir) == << Len(odir) >> \o serializeEntries(odir)

\* reads `count` entries of `b` from position `pos`; ok is FALSE when the
\* bytes end early (the deserializer throws)
RECURSIVE parseEntries(_, _, _)
parseEntries(b, pos, count) ==
  IF count = 0 THEN [ok |-> TRUE, entries |-> << >>]
  ELSE IF pos > Len(b) THEN [ok |-> FALSE, entries |-> << >>]
  ELSE
    LET nameLen == b[pos]
        hashAt  == pos + 1 + nameLen + 4 + 8
    IN  IF hashAt > Len(b) \/ hashAt + b[hashAt] > Len(b)
        THEN [ok |-> FALSE, entries |-> << >>]
        ELSE
          LET hashLen == b[hashAt]
              oent == [name |-> SubSeq(b, pos + 1, pos + nameLen),
                       mode |-> readBE32(SubSeq(b, pos + 1 + nameLen,
                                                pos + nameLen + 4)),
                       inodeNumber |-> readBE64(SubSeq(b, pos + 1 + nameLen + 4,
                                                       hashAt - 1)),
                       hash |-> SubSeq(b, hashAt + 1, hashAt + hashLen)]
              rest == parseEntries(b, hashAt + hashLen + 1, count - 1)
          IN  IF rest.ok
              THEN [ok |-> TRUE, entries |-> << oent >> \o rest.entries]
              ELSE [ok |-> FALSE, entries |-> << >>]

RECURSIVE mapFromSeq(_)
mapFromSeq(s) ==
  IF Len(s) = 0 THEN << >>
  ELSE mapEmplace(mapFromSeq(SubSeq(s, 1, Len(s) - 1)), s[Len(s)])

\* CompactSerializer::deserialize<overlay::OverlayDir>(contents)
CompactDeserialize(contents) ==
  IF Len(contents) = 0 THEN [ok |-> FALSE, entries |-> << >>]
  ELSE LET r == parseEntries(contents, 2, contents[1])
       IN  IF r.ok THEN [ok |-> TRUE, entries |-> mapFromSeq(r.entries)]
           ELSE [ok |-> FALSE, entries |-> << >>]

(***************************************************************************)
(* Entry header.                                                           *)
(***************************************************************************)
\* Overlay::createHeader: identifier, version, three {sec, nsec} pairs,
\* zero padding up to kHeaderLength
createHeader(identifier, version, atime, ctime, mtime) ==
  LET h == identifier \o writeBE32(version)
             \o writeBE64(atime[1]) \o writeBE64(atime[2])
             \o writeBE64(ctime[1]) \o writeBE64(ctime[2])
             \o writeBE64(mtime[1]) \o writeBE64(mtime[2])
  IN  h \o Zeros(kHeaderLength - Len(h))

\* struct timespec zeroTime = {0, 0}
zeroTime == << 0, 0 >>

\* saveOverlayDir: the iov handed to writeFileAtomic, header then body
dirFileBytes(dir) ==
  createHeader(kHeaderIdentifierDir, kHeaderVersion, zeroTime, zeroTime, zeroTime)
    \o CompactSerialize(toOverlayDir(dir))

\* addHeaderToOverlayFile writing the directory identifier
fileHeaderBytesDirKind ==
  createHeader(kHeaderIdentifierDir, kHeaderVersion, zeroTime, zeroTime, zeroTime)

\* addHeaderToOverlayFile: the bytes handed to writeFull
fileHeaderBytes ==
  createHeader(kHeaderIdentifierFile, kHeaderVersion, zeroTime, zeroTime, zeroTime)

(***************************************************************************)
(* Reading a per-inode file.  The file system `fs` is a function from      *)
(* paths to contents; a path outside its domain does not exist (ENOENT).   *)
(* A result is [tag, entries]: tag "ok" carries the listing, tag "none"    *)
(* is folly::none, every other tag names the exception thrown.             *)
(***************************************************************************)
Outcome(tag) == [tag |-> tag, entries |-> << >>]

\* Overlay::deserializeOverlayDir
deserializeOverlayDir(fs, inodeNumber) ==
  LET path == getFilePath(inodeNumber)
  IN  IF path \notin DOMAIN fs THEN Outcome("none")
      ELSE
        LET serializedData == fs[path]
        IN  IF Len(serializedData) < kHeaderLength THEN Outcome("TooShortForHeader")
            ELSE
              LET header     == SubSeq(serializedData, 1, kHeaderLength)
                  contents   == SubSeq(serializedData, kHeaderLength + 1,
                                       Len(serializedData))
                  idLen      == Len(kHeaderIdentifierDir)
                  identifier == SubSeq(header, 1, idLen)
                  ver        == readBE32(SubSeq(header, idLen + 1, idLen + 4))
              IN  IF identifier # kHeaderIdentifierDir
                  THEN Outcome("UnexpectedIdentifier")
                  ELSE IF ver # kHeaderVersion
                  THEN Outcome("UnexpectedVersion")
                  ELSE
                    LET r == CompactDeserialize(contents)
                    IN  IF r.ok THEN [tag |-> "ok", entries |-> r.entries]
                        ELSE Outcome("DeserializeError")

\* loadOverlayDir, the loop body: Hash(ByteRange) throws unless it is given
\* exactly HashSize bytes
RECURSIVE fromOverlayDir(_)
fromOverlayDir(odir) ==
  IF Len(odir) = 0 THEN [tag |-> "ok", entries |-> << >>]
  ELSE
    LET value == odir[Len(odir)]
        init  == fromOverlayDir(SubSeq(odir, 1, Len(odir) - 1))
    IN  IF init.tag # "ok" THEN init
        ELSE IF value.inodeNumber = 0
        THEN IF Len(value.hash) # HashSize THEN Outcome("InvalidHash")
             ELSE [tag |-> "ok",
                   entries |-> mapEmplace(init.entries,
                      EntryFromHash(value.name, value.mode, value.hash))]
        ELSE [tag |-> "ok",
              entries |-> mapEmplace(init.entries,
                 EntryFromInode(value.name, value.mode, value.inodeNumber))]

\* Overlay::loadOverlayDir
loadOverlayDir(fs, inodeNumber) ==
  LET dirData == deserializeOverlayDir(fs, inodeNumber)
  IN  IF dirData.tag # "ok" THEN dirData ELSE fromOverlayDir(dirData.entries)

\* mode_to_dtype(mode) == dtype_t::Dir: (mode & S_IFMT) >> 12 is DT_DIR (4)
IsDirMode(mode) == (mode \div 4096) % 16 = 4

\* the file system without the path (unlink)
Unlinked(fs, path) == [q \in (DOMAIN fs) \ {path} |-> fs[q]]

\* the file system with `data` at the path (create, write or rename target)
Stored(fs, path, data) ==
  [q \in (DOMAIN fs) \cup {path} |-> IF q = path THEN data ELSE fs[q]]

SetMax(S) == CHOOSE x \in S : \A y \in S : y <= x

\* the names of the 256 shard subdirectories
ShardNames == { formatSubdirPath(n) : n \in 0..(NumShards - 1) }

\* the names of the shard subdirectories numbered from..to
ShardRange(from, to) == { formatSubdirPath(n) : n \in from..to }

\* getMaxRecordedInode without its second loop
scanShardsSkipped(fs, from, to, maxInode) == maxInode

\* getMaxRecordedInode looking for an inode number only in the shard that
\* number maps to
scanShardsOwnShard(fs, from, to, maxInode) ==
  SetMax({ maxInode } \cup
         { tryToInode(q[3]) :
             q \in { r \in DOMAIN fs :
                       /\ r[2] \in ShardRange(from, to)
                       /\ r[2] = formatSubdirPath(tryToInode(r[3])) } })

\* getMaxRecordedInode, the second loop for n = from..to: every file name
\* of these shard directories that parses as an inode number raises maxInode
scanShards(fs, from, to, maxInode) ==
  SetMax({ maxInode } \cup
         { tryToInode(q[3]) :
             q \in { r \in DOMAIN fs : r[2] \in ShardRange(from, to) } })

\* getMaxRecordedInode, the inner loop over the entries of one directory:
\* [max, push] after the entries of dir
RECURSIVE walkEntries(_, _)
walkEntries(entries, maxInode) ==
  IF Len(entries) = 0 THEN [max |-> maxInode, push |-> << >>]
  ELSE
    LET init  == walkEntries(SubSeq(entries, 1, Len(entries) - 1), maxInode)
        entry == entries[Len(entries)]
    IN  IF entry.inodeNumber = 0 THEN init
        ELSE [max  |-> IF entry.inodeNumber > init.max THEN entry.inodeNumber
                       ELSE init.max,
              push |-> IF IsDirMode(entry.mode)
                       THEN Append(init.push, entry.inodeNumber)
                       ELSE init.push]

(***************************************************************************)
(* Inputs of the store operations.                                         *)
(***************************************************************************)
NameA == << 97 >>
NameB == << 98 >>
NameC == << 99 >>
HashAA == [i \in 1..HashSize |-> 170]
HashBB == [i \in 1..HashSize |-> 187]
\* S_IFREG | 0644 and S_IFDIR | 0755
ModeFile == 8 * 4096 + 420
ModeDir == 4 * 4096 + 493

\* {"a" -> hash-backed file, "b" -> materialized directory 2}
DirA == << EntryFromHash(NameA, ModeFile, HashAA), EntryFromInode(NameB, ModeDir, 2) >>
\* {"a" -> materialized directory 1}
DirB == << EntryFromInode(NameA, ModeDir, 1) >>
\* {"b" -> hash-backed directory, "c" -> materialized file 258}
DirC == << EntryFromHash(NameB, ModeDir, HashBB), EntryFromInode(NameC, ModeFile, 258) >>
DirEmpty == << >>

Threads == { "T1", "T2" }
AllInodes == { 1, 2, 258 }

\* a file named 999999 in shard 2a (999999 maps to shard 3f)
OrphanBig ==
  << LocalDir, << "2", "a" >>, << "9", "9", "9", "9", "9", "9" >> >>
\* a file named 300 in shard ff (300 maps to shard 2c)
OrphanSmall == << LocalDir, << "f", "f" >>, << "3", "0", "0" >> >>
\* a file whose name is no number
OrphanJunk == << LocalDir, << "0", "0" >>, << "7", "x" >> >>
Orphans == { OrphanBig, OrphanSmall, OrphanJunk }

\* the numbers of the shard directories that hold a file in some state: those
\* of the inodes and of the orphans.  Every other shard directory is empty
\* in every state.
FileShards ==
  { n \in 0..(NumShards - 1) :
      \/ \E i \in AllInodes : formatSubdirPath(i) = formatSubdirPath(n)
      \/ \E q \in Orphans : q[2] = formatSubdirPath(n) }

\* the last shard directory read together with directory `from`: the reads
\* of the directories after `from` that are empty in every state are not
\* steps of their own
LastOfRun(from) ==
  LET later == { n \in FileShards : n > from }
  IN  IF later = { } THEN NumShards - 1
      ELSE (CHOOSE n \in later : \A k \in later : n <= k) - 1

(***************************************************************************)
(* State.                                                                  *)
(*   files    the per-inode files and temporary files under localDir_     *)
(*   th       per thread, the operation in progress                        *)
(*   ret      what the step just taken returned to its caller              *)
(*   lastMut  per inode, the last step that changed what is at its path    *)
(*   ever     the inodes a successful save_dir or create_file was given    *)
(*   crashed  the operations in progress when the process last crashed     *)
(*   crashes  the number of crashes so far                                 *)
(*   pin, pout  argument and result of the pure path function              *)
(*   hasTree    whether localDir_ holds an entry named "tree"              *)
(*   rootExists whether the directory localDir_ exists                     *)
(*   shards     the shard subdirectories that exist                        *)
(*   rootFiles  the files directly under localDir_ (the info file and      *)
(*              temporary files): path -> file identity                    *)
(*   fileData   file identity -> content, also of files no path names      *)
(*   nextId     the next unused file identity                              *)
(*   proc       per process, its position in open(root) and its handle     *)
(***************************************************************************)
VARIABLES files, th, ret, lastMut, ever, crashed, crashes, pin, pout,
          hasTree, rootExists, shards, rootFiles, fileData, nextId, proc

storeVars == << files, th, ret, lastMut, ever, crashed, crashes >>
pathVars == << pin, pout >>
openVars == << hasTree, rootExists, shards, rootFiles, fileData, nextId, proc >>
vars == << files, th, ret, lastMut, ever, crashed, crashes, pin, pout,
           hasTree, rootExists, shards, rootFiles, fileData, nextId, proc >>

IdleThread ==
  [pc |-> "idle", n |-> 0, d |-> << >>, tmp |-> << >>, attached |-> FALSE,
   stack |-> << >>, max |-> 0, iter |-> 0, shard |-> 0, raced |-> FALSE,
   over |-> ""]
AllIdle == [t \in Threads |-> IdleThread]
\* a thread between operations: before its first one, or back from one;
\* "save_done" remembers the save_dir a thread has just returned from and
\* "remove_done" the remove, with `raced` telling whether another thread was
\* inside save_dir of the same inode when the file was unlinked; `over` of
\* "save_done" tells what the rename replaced
IdlePcs == { "idle", "save_done", "remove_done" }
SavePcs == { "save_tmp", "save_part", "save_full" }

NoRet == [op |-> "", n |-> 0, tag |-> "", entries |-> << >>, val |-> 0]
Ret(op, n, tag) == [op |-> op, n |-> n, tag |-> tag, entries |-> << >>, val |-> 0]

Mut(kind, d) == [kind |-> kind, d |-> d]

\* a create_file in progress on inode n loses its path when the path is
\* renamed over or unlinked: its descriptor then names a file without a name
Detached(thr, n) ==
  [t \in Threads |->
     IF thr[t].pc = "create_hdr" /\ thr[t].n = n
     THEN [thr[t] EXCEPT !.attached = FALSE] ELSE thr[t]]

TempLetters == << "t", "u", "v", "w", "x", "y", "z" >>
TempSuffix(i) == << ".", TempLetters[i], TempLetters[i], TempLetters[i],
                    TempLetters[i], TempLetters[i], TempLetters[i] >>
TempPath(path, i) == [path EXCEPT ![Len(path)] = @ \o TempSuffix(i)]

\* a writer that opens the target itself instead of a temporary file
mkstempInPlace(fs, path) == path

\* folly::writeFileAtomic, mkstemp(path + ".XXXXXX"): a name not in use
mkstemp(fs, path) ==
  TempPath(path, CHOOSE i \in 1..MaxTemps :
                   /\ TempPath(path, i) \notin DOMAIN fs
                   /\ \A j \in 1..(i - 1) : TempPath(path, j) \in DOMAIN fs)

\* removeOverlayData that reports a missing file as an error
removeOverlayDataStrict(fs, inodeNumber) ==
  IF getFilePath(inodeNumber) \in DOMAIN fs
  THEN [fs |-> Unlinked(fs, getFilePath(inodeNumber)), tag |-> "ok"]
  ELSE [fs |-> fs, tag |-> "Io"]

\* removeOverlayData that empties the file instead of unlinking it
removeOverlayDataTruncates(fs, inodeNumber) ==
  [fs |-> IF getFilePath(inodeNumber) \in DOMAIN fs
          THEN Stored(fs, getFilePath(inodeNumber), << >>) ELSE fs,
   tag |-> "ok"]

\* Overlay::removeOverlayData: unlink, ENOENT is not an error
removeOverlayData(fs, inodeNumber) ==
  [fs |-> Unlinked(fs, getFilePath(inodeNumber)), tag |-> "ok"]

(***************************************************************************)
(* save_dir: Overlay::saveOverlayDir, whose folly::writeFileAtomic creates *)
(* a temporary file beside the target, writes it and renames it.           *)
(***************************************************************************)
SaveBegin(t, n, d) ==
  /\ th[t].pc \in IdlePcs
  /\ \E i \in 1..MaxTemps : TempPath(getFilePath(n), i) \notin DOMAIN files
  /\ LET tmp == mkstemp(files, getFilePath(n))
     IN  /\ files' = Stored(files, tmp, << >>)
         /\ th' = [th EXCEPT ![t] = [IdleThread EXCEPT !.pc = "save_tmp", !.n = n,
                                                       !.d = d, !.tmp = tmp]]
  /\ ret' = NoRet
  /\ crashed' = AllIdle
  /\ UNCHANGED << lastMut, ever, crashes, pathVars, openVars >>

\* writev returns after the first iov (the header): a partial temporary file
SaveWritePart(t) ==
  /\ th[t].pc = "save_tmp"
  /\ files' = Stored(files, th[t].tmp,
                     SubSeq(dirFileBytes(th[t].d), 1, kHeaderLength))
  /\ th' = [th EXCEPT ![t].pc = "save_part"]
  /\ ret' = NoRet
  /\ UNCHANGED << lastMut, ever, crashed, crashes, pathVars, openVars >>

\* writevFull has written header and body
SaveWriteFull(t) ==
  /\ th[t].pc \in { "save_tmp", "save_part" }
  /\ files' = Stored(files, th[t].tmp, dirFileBytes(th[t].d))
  /\ th' = [th EXCEPT ![t].pc = "save_full"]
  /\ ret' = NoRet
  /\ UNCHANGED << lastMut, ever, crashed, crashes, pathVars, openVars >>

\* what is at a path: nothing, a file with the directory identifier, a file
\* with the file identifier, or a file with neither
KindAt(fs, path) ==
  IF path \notin DOMAIN fs THEN "absent"
  ELSE IF Len(fs[path]) < Len(kHeaderIdentifierDir) THEN "short"
  ELSE IF SubSeq(fs[path], 1, Len(kHeaderIdentifierDir)) = kHeaderIdentifierDir
  THEN "dir"
  ELSE IF SubSeq(fs[path], 1, Len(kHeaderIdentifierFile)) = kHeaderIdentifierFile
  THEN "file"
  ELSE "other"

\* a rename that leaves an existing target in place
SaveRenameKeepsTarget(t) ==
  /\ th[t].pc = "save_full"
  /\ LET n == th[t].n
     IN  /\ files' = IF getFilePath(n) \in DOMAIN files
                     THEN Unlinked(files, th[t].tmp)
                     ELSE Stored(Unlinked(files, th[t].tmp), getFilePath(n),
                                 files[th[t].tmp])
         /\ th' = [Detached(th, n) EXCEPT ![t].pc = "save_done", ![t].tmp = << >>,
                                          ![t].over = KindAt(files, getFilePath(n))]
         /\ lastMut' = [lastMut EXCEPT ![n] = Mut("save", th[t].d)]
         /\ ever' = ever \cup { n }
         /\ ret' = Ret("save_dir", n, "ok")
  /\ UNCHANGED << crashed, crashes, pathVars, openVars >>

\* rename(temporary, target)
SaveRename(t) ==
  /\ th[t].pc = "save_full"
  /\ LET n == th[t].n
     IN  /\ files' = Stored(Unlinked(files, th[t].tmp), getFilePath(n),
                            files[th[t].tmp])
         /\ th' = [Detached(th, n) EXCEPT ![t].pc = "save_done", ![t].tmp = << >>,
                                          ![t].over = KindAt(files, getFilePath(n))]
         /\ lastMut' = [lastMut EXCEPT ![n] = Mut("save", th[t].d)]
         /\ ever' = ever \cup { n }
         /\ ret' = Ret("save_dir", n, "ok")
  /\ UNCHANGED << crashed, crashes, pathVars, openVars >>

\* a failed write or rename: the temporary file is unlinked and the error thrown
SaveFail(t) ==
  /\ th[t].pc \in SavePcs
  /\ files' = Unlinked(files, th[t].tmp)
  /\ ret' = Ret("save_dir", th[t].n, "Io")
  /\ th' = [th EXCEPT ![t] = IdleThread]
  /\ UNCHANGED << lastMut, ever, crashed, crashes, pathVars, openVars >>

(***************************************************************************)
(* load_dir: Overlay::loadOverlayDir.                                      *)
(***************************************************************************)
LoadDir(t, n) ==
  /\ th[t].pc \in IdlePcs
  /\ LET r == loadOverlayDir(files, n)
     IN  ret' = [op |-> "load_dir", n |-> n, tag |-> r.tag,
                 entries |-> r.entries, val |-> 0]
  /\ UNCHANGED << files, th, lastMut, ever, crashed, crashes, pathVars, openVars >>

(***************************************************************************)
(* remove: Overlay::removeOverlayData.                                     *)
(***************************************************************************)
Remove(t, n) ==
  /\ th[t].pc \in IdlePcs
  /\ LET r == removeOverlayData(files, n)
     IN  /\ files' = r.fs
         /\ ret' = Ret("remove", n, r.tag)
         /\ lastMut' = IF r.tag = "ok"
                       THEN [lastMut EXCEPT ![n] = Mut("remove", << >>)]
                       ELSE lastMut
         /\ th' = [(IF r.tag = "ok" THEN Detached(th, n) ELSE th)
                    EXCEPT ![t] =
                      [IdleThread EXCEPT
                         !.pc = "remove_done", !.n = n,
                         !.raced = \E u \in Threads \ { t } :
                                     th[u].pc \in SavePcs /\ th[u].n = n]]
  /\ crashed' = AllIdle
  /\ UNCHANGED << ever, crashes, pathVars, openVars >>

(***************************************************************************)
(* create_file: Overlay::createOverlayFile.                                *)
(***************************************************************************)
\* a failing exclusive create whose clean-up unlinks the path
CreateExistsUnlinks(t, n) ==
  /\ th[t].pc \in IdlePcs
  /\ getFilePath(n) \in DOMAIN files
  /\ ret' = Ret("create_file", n, "Exists")
  /\ th' = [th EXCEPT ![t] = IdleThread]
  /\ files' = Unlinked(files, getFilePath(n))
  /\ UNCHANGED << lastMut, ever, crashed, crashes, pathVars, openVars >>

\* open(O_RDWR | O_CREAT | O_EXCL) fails: the folly::File constructor throws
\* before the SCOPE_FAIL guard exists
CreateExists(t, n) ==
  /\ th[t].pc \in IdlePcs
  /\ getFilePath(n) \in DOMAIN files
  /\ ret' = Ret("create_file", n, "Exists")
  /\ th' = [th EXCEPT ![t] = IdleThread]
  /\ UNCHANGED << files, lastMut, ever, crashed, crashes, pathVars, openVars >>

\* open(O_RDWR | O_CREAT | O_EXCL) creates the file, empty
CreateBegin(t, n) ==
  /\ th[t].pc \in IdlePcs
  /\ getFilePath(n) \notin DOMAIN files
  /\ files' = Stored(files, getFilePath(n), << >>)
  /\ th' = [th EXCEPT ![t] = [IdleThread EXCEPT !.pc = "create_hdr", !.n = n,
                                                !.attached = TRUE]]
  /\ lastMut' = [lastMut EXCEPT ![n] = Mut("create", << >>)]
  /\ ret' = NoRet
  /\ crashed' = AllIdle
  /\ UNCHANGED << ever, crashes, pathVars, openVars >>

\* addHeaderToOverlayFile: writeFull writes the header through the descriptor
CreateHeader(t) ==
  /\ th[t].pc = "create_hdr"
  /\ LET n == th[t].n
     IN  /\ files' = IF th[t].attached
                     THEN Stored(files, getFilePath(n), fileHeaderBytes)
                     ELSE files
         /\ lastMut' = IF th[t].attached
                       THEN [lastMut EXCEPT ![n] = Mut("header", << >>)]
                       ELSE lastMut
         /\ ever' = ever \cup { n }
         /\ ret' = Ret("create_file", n, "ok")
  /\ th' = [th EXCEPT ![t] = IdleThread]
  /\ UNCHANGED << crashed, crashes, pathVars, openVars >>

\* a failing header write after which nothing is unlinked
CreateFailLeavesFile(t) ==
  /\ th[t].pc = "create_hdr"
  /\ LET n == th[t].n
     IN  /\ files' = files
         /\ lastMut' = IF getFilePath(n) \in DOMAIN files
                       THEN [lastMut EXCEPT ![n] = Mut("cleanup", << >>)]
                       ELSE lastMut
         /\ th' = [th EXCEPT ![t] = IdleThread]
         /\ ret' = Ret("create_file", n, "Io")
  /\ UNCHANGED << ever, crashed, crashes, pathVars, openVars >>

\* writeFull fails: addHeaderToOverlayFile throws and the SCOPE_FAIL guard
\* unlinks whatever is at the path
CreateFail(t) ==
  /\ th[t].pc = "create_hdr"
  /\ LET n == th[t].n
     IN  /\ files' = Unlinked(files, getFilePath(n))
         /\ lastMut' = IF getFilePath(n) \in DOMAIN files
                       THEN [lastMut EXCEPT ![n] = Mut("cleanup", << >>)]
                       ELSE lastMut
         /\ th' = [Detached(th, n) EXCEPT ![t] = IdleThread]
         /\ ret' = Ret("create_file", n, "Io")
  /\ UNCHANGED << ever, crashed, crashes, pathVars, openVars >>

(***************************************************************************)
(* max_recorded_inode: Overlay::getMaxRecordedInode.                       *)
(***************************************************************************)
\* maxInode = FUSE_ROOT_ID; toProcess.push_back(FUSE_ROOT_ID)
MaxBegin(t) ==
  /\ th[t].pc \in IdlePcs
  /\ th' = [th EXCEPT ![t] = [IdleThread EXCEPT !.pc = "scan_walk",
                                                !.stack = << FUSE_ROOT_ID >>,
                                                !.max = FUSE_ROOT_ID]]
  /\ ret' = NoRet
  /\ UNCHANGED << files, lastMut, ever, crashed, crashes, pathVars, openVars >>

\* one iteration of while (!toProcess.empty()) that does not throw; `iter`
\* is the number of iterations done so far, modulo 2
MaxWalk(t) ==
  /\ th[t].pc = "scan_walk"
  /\ Len(th[t].stack) > 0
  /\ LET k == Len(th[t].stack)
         dirInodeNumber == th[t].stack[k]
         rest == SubSeq(th[t].stack, 1, k - 1)
         dir == deserializeOverlayDir(files, dirInodeNumber)
         w == walkEntries(dir.entries, th[t].max)
     IN  /\ dir.tag \in { "none", "ok" }
         /\ Len(rest \o w.push) <= MaxStack
         /\ th' = [th EXCEPT ![t].stack = rest \o w.push, ![t].max = w.max,
                              ![t].iter = 1 - @]
  /\ ret' = NoRet
  /\ UNCHANGED << files, lastMut, ever, crashed, crashes, pathVars, openVars >>

\* one iteration in which deserializeOverlayDir throws
MaxThrow(t) ==
  /\ th[t].pc = "scan_walk"
  /\ Len(th[t].stack) > 0
  /\ LET dir == deserializeOverlayDir(files, th[t].stack[Len(th[t].stack)])
     IN  /\ dir.tag \notin { "none", "ok" }
         /\ ret' = Ret("max_recorded_inode", 0, dir.tag)
  /\ th' = [th EXCEPT ![t] = IdleThread]
  /\ UNCHANGED << files, lastMut, ever, crashed, crashes, pathVars, openVars >>

\* the loop over the shard subdirectories: the read of directory `shard`,
\* other threads running between one directory and the next; after the last
\* directory the return
MaxShards(t) ==
  /\ th[t].pc = "scan_walk"
  /\ Len(th[t].stack) = 0
  /\ LET from == th[t].shard
         to == LastOfRun(from)
         maxInode == scanShards(files, from, to, th[t].max)
     IN  IF to = NumShards - 1
         THEN /\ ret' = [op |-> "max_recorded_inode", n |-> 0, tag |-> "ok",
                         entries |-> << >>, val |-> maxInode]
              /\ th' = [th EXCEPT ![t] = IdleThread]
         ELSE /\ ret' = NoRet
              /\ th' = [th EXCEPT ![t].shard = to + 1, ![t].max = maxInode]
  /\ UNCHANGED << files, lastMut, ever, crashed, crashes, pathVars, openVars >>

(***************************************************************************)
(* The process dies: every operation in progress stops where it is, the    *)
(* files stay as they are.                                                 *)
(***************************************************************************)
Crash ==
  /\ crashes < MaxCrashes
  /\ \E t \in Threads : th[t].pc \notin IdlePcs
  /\ crashed' = th
  /\ th' = AllIdle
  /\ crashes' = crashes + 1
  /\ ret' = NoRet
  /\ UNCHANGED << files, lastMut, ever, pathVars, openVars >>

(***************************************************************************)
(* open(root): Overlay::initOverlay, run by separate processes.            *)
(***************************************************************************)
Procs == { "P1", "P2" }

\* localDir_ + PathComponentPiece{kInfoFile}
infoPath == << LocalDir, kInfoFile >>

\* the header initNewOverlay writes: the magic, then the version big-endian
infoHeader == kInfoHeaderMagic \o writeBE32(kOverlayVersion)

IdleProc ==
  [pc |-> "idle", fd |-> 0, locked |-> FALSE, i |-> 0, tmp |-> << >>,
   res |-> "", under |-> FALSE]

\* a formatted root that process P1 holds open
OpenedInit ==
  /\ hasTree = FALSE
  /\ rootExists = TRUE
  /\ shards = ShardNames
  /\ rootFiles = (infoPath :> 1)
  /\ fileData = (1 :> infoHeader)
  /\ nextId = 2
  /\ proc = [p \in Procs |->
              IF p = "P1" THEN [IdleProc EXCEPT !.pc = "open", !.fd = 1,
                                                !.locked = TRUE]
              ELSE IdleProc]

(***************************************************************************)
(* Specifications of the store.                                            *)
(***************************************************************************)
StoreInit ==
  /\ OpenedInit
  /\ files = << >>
  /\ th = AllIdle
  /\ ret = NoRet
  /\ lastMut = [n \in AllInodes |-> Mut("init", << >>)]
  /\ ever = { }
  /\ crashed = AllIdle
  /\ crashes = 0
  /\ pin = << 0, 0 >>
  /\ pout = << >>

\* one thread, every operation
SeqInodes == { 1, 2, 258 }
SeqDirs == { DirEmpty, DirA, DirB, DirC }
Next ==
  \/ \E n \in SeqInodes, d \in SeqDirs : SaveBegin("T1", n, d)
  \/ SaveWritePart("T1")
  \/ SaveWriteFull("T1")
  \/ SaveRename("T1")
  \/ SaveFail("T1")
  \/ \E n \in SeqInodes : LoadDir("T1", n)
  \/ \E n \in SeqInodes : Remove("T1", n)
  \/ \E n \in SeqInodes : CreateExists("T1", n)
  \/ \E n \in SeqInodes : CreateBegin("T1", n)
  \/ CreateHeader("T1")
  \/ CreateFail("T1")
  \/ MaxBegin("T1")
  \/ MaxWalk("T1")
  \/ MaxThrow("T1")
  \/ MaxShards("T1")
Spec == StoreInit /\ [][Next]_vars

\* two threads of one process on the same inodes
ConcInodes == { 1, 2 }
ConcDirs == { DirA, DirC }
NextConc ==
  \E t \in Threads :
    \/ \E n \in ConcInodes, d \in ConcDirs : SaveBegin(t, n, d)
    \/ SaveWritePart(t)
    \/ SaveWriteFull(t)
    \/ SaveRename(t)
    \/ \E n \in ConcInodes : LoadDir(t, n)
    \/ \E n \in ConcInodes : Remove(t, n)
    \/ \E n \in ConcInodes : CreateExists(t, n)
    \/ \E n \in ConcInodes : CreateBegin(t, n)
    \/ CreateHeader(t)
    \/ CreateFail(t)
SpecConc == StoreInit /\ [][NextConc]_vars

\* one thread of a process that may crash and start again
CrashInodes == { 1, 2 }
CrashDirs == { DirA, DirC }
NextCrash ==
  \/ \E n \in CrashInodes, d \in CrashDirs : SaveBegin("T1", n, d)
  \/ SaveWritePart("T1")
  \/ SaveWriteFull("T1")
  \/ SaveRename("T1")
  \/ \E n \in CrashInodes : LoadDir("T1", n)
  \/ \E n \in CrashInodes : Remove("T1", n)
  \/ \E n \in CrashInodes : CreateExists("T1", n)
  \/ \E n \in CrashInodes : CreateBegin("T1", n)
  \/ CreateHeader("T1")
  \/ CreateFail("T1")
  \/ Crash
SpecCrash == StoreInit /\ [][NextCrash]_vars

(***************************************************************************)
(* Properties of the store.                                                *)
(***************************************************************************)
\* what load_dir returns for an inode whose path was last changed by m:
\* the listing of a save_dir, none after an unlink or before any write,
\* the wrong-kind error after a completed create_file
AgreesWith(r, m) ==
  /\ m.kind = "save" => r = [tag |-> "ok", entries |-> m.d]
  /\ m.kind \in { "init", "remove", "cleanup" } => r = Outcome("none")
  /\ m.kind = "header" => r = Outcome("UnexpectedIdentifier")

RetLoad == [tag |-> ret.tag, entries |-> ret.entries]

\* every entry is materialized (inode # 0, no hash) or hash-backed (inode 0,
\* a hash)
RespectsI1(d) ==
  \A i \in 1..Len(d) :
    \/ d[i].materialized /\ d[i].inode # 0 /\ Len(d[i].hash) = 0
    \/ ~d[i].materialized /\ d[i].inode = 0 /\ Len(d[i].hash) > 0

\* C1: while the last change of path(n) is the rename of save_dir(n, d), with
\* d respecting I1, load_dir(n) returns exactly d: the same names in the same
\* order, and per name the same mode, the same inode number or hash and the
\* same materialized / hash-backed form; so does the load_dir just executed.
C1_RoundTrip ==
  /\ \A n \in AllInodes :
       (lastMut[n].kind = "save" /\ RespectsI1(lastMut[n].d))
         => loadOverlayDir(files, n) = [tag |-> "ok", entries |-> lastMut[n].d]
  /\ (ret.op = "load_dir" /\ lastMut[ret.n].kind = "save"
        /\ RespectsI1(lastMut[ret.n].d))
       => ret.tag = "ok" /\ ret.entries = lastMut[ret.n].d

\* a load_dir(n) has just returned DirA, which holds a hash-backed and a
\* materialized entry, right after the thread's save_dir(n, DirA)
C1_Witness ==
  /\ ret.op = "load_dir" /\ ret.tag = "ok" /\ ret.entries = DirA
  /\ th["T1"].pc = "save_done" /\ th["T1"].n = ret.n /\ th["T1"].d = DirA
  /\ lastMut[ret.n] = Mut("save", DirA)

\* C3: after a crash inside save_dir(n, d2) before the rename, the file at
\* path(n) is the one the last completed operation left: load_dir(n) returns
\* the previously saved listing, or none when no file existed, never a
\* partial listing and never a corruption error.
C3_CrashAtomic ==
  \A t \in Threads :
    crashed[t].pc \in SavePcs =>
      LET n == crashed[t].n
          r == loadOverlayDir(files, n)
      IN  /\ AgreesWith(r, lastMut[n])
          /\ lastMut[n].kind \in { "save", "init", "remove", "cleanup" }
               => r.tag \in { "ok", "none" }
          /\ lastMut[n].kind = "save"
               => files[getFilePath(n)] = dirFileBytes(lastMut[n].d)
          /\ lastMut[n].kind \in { "init", "remove", "cleanup" }
               => getFilePath(n) \notin DOMAIN files
          /\ (ret.op = "load_dir" /\ ret.n = n) => AgreesWith(RetLoad, lastMut[n])

\* the process crashed inside save_dir(n, DirC) with a half-written temporary
\* file, which is still there, and a load_dir(n) after the restart returned
\* the listing DirA saved before
C3_Witness ==
  /\ crashed["T1"].pc = "save_part" /\ crashed["T1"].d = DirC
  /\ crashed["T1"].tmp \in DOMAIN files
  /\ Len(files[crashed["T1"].tmp]) = kHeaderLength
  /\ ret.op = "load_dir" /\ ret.n = crashed["T1"].n
  /\ ret.tag = "ok" /\ ret.entries = DirA

\* C4 as claimed: a value returned by max_recorded_inode is at least every
\* inode number a successful save_dir or create_file was ever given.
C4_EverPassed ==
  (ret.op = "max_recorded_inode" /\ ret.tag = "ok")
    => \A n \in ever : ret.val >= n

\* C4 as amended: a value returned by max_recorded_inode is at least every
\* inode number given to a successful save_dir or create_file whose file no
\* later remove has unlinked.
C4_StillRecorded ==
  (ret.op = "max_recorded_inode" /\ ret.tag = "ok")
    => \A n \in AllInodes :
         lastMut[n].kind \in { "save", "header" } => ret.val >= n

\* max_recorded_inode returns 258 for a file no listing names, after inode 2
\* was saved and removed
C4_Witness ==
  /\ ret.op = "max_recorded_inode" /\ ret.tag = "ok" /\ ret.val = 258
  /\ lastMut[258].kind = "header"
  /\ lastMut[2].kind = "remove" /\ 2 \in ever
  /\ lastMut[1].kind = "init"

\* C5: remove(n) returns without error whether or not the file exists, and
\* while the last change of path(n) is a remove, load_dir(n) returns none.
C5_RemoveThenNone ==
  /\ ret.op = "remove" => ret.tag = "ok"
  /\ \A n \in AllInodes :
       lastMut[n].kind = "remove"
         => /\ loadOverlayDir(files, n) = Outcome("none")
            /\ getFilePath(n) \notin DOMAIN files
  /\ (ret.op = "load_dir" /\ lastMut[ret.n].kind = "remove")
       => RetLoad = Outcome("none")

\* a remove of an inode that never had a file has been followed by a load_dir
\* of it, which returned none
C5_Witness ==
  /\ ret.op = "load_dir" /\ ret.tag = "none"
  /\ lastMut[ret.n].kind = "remove" /\ ret.n \notin ever

\* C6: while two threads are inside save_dir on the same inode, or back from
\* it, load_dir of that inode returns what the last completed change of the
\* path left (the prior listing or one of the two), never an error of a torn
\* file; once both have returned it returns the listing renamed last, which is
\* one of the two.
C6_ConcurrentSaves ==
  \A t1, t2 \in Threads :
    (/\ t1 # t2
     /\ th[t1].pc \in SavePcs \cup { "save_done" }
     /\ th[t2].pc \in SavePcs \cup { "save_done" }
     /\ th[t1].n = th[t2].n)
    => LET n == th[t1].n
           r == loadOverlayDir(files, n)
       IN  /\ r.tag \in { "ok", "none", "UnexpectedIdentifier" }
           /\ AgreesWith(r, lastMut[n])
           /\ lastMut[n].kind # "create"
           /\ (ret.op = "load_dir" /\ ret.n = n) => RetLoad = r
           /\ (th[t1].pc = "save_done" /\ th[t2].pc = "save_done")
                => /\ lastMut[n].kind = "save"
                   /\ r.tag = "ok"
                   /\ r.entries \in { th[t1].d, th[t2].d }
                   /\ r.entries = lastMut[n].d

\* both threads are back from save_dir of the same inode with different
\* listings, and a load_dir has returned the first thread's
C6_Witness ==
  /\ th["T1"].pc = "save_done" /\ th["T2"].pc = "save_done"
  /\ th["T1"].n = th["T2"].n /\ th["T1"].d = DirA /\ th["T2"].d = DirC
  /\ ret.op = "load_dir" /\ ret.n = th["T1"].n /\ ret.entries = DirA

\* C7: while the last change of path(n) is the header write of a create_file
\* that returned successfully, load_dir(n) fails with the unexpected-identifier
\* error, returning neither none nor a listing, and the file keeps its content.
C7_KindMismatch ==
  /\ \A n \in AllInodes :
       lastMut[n].kind = "header"
         => loadOverlayDir(files, n) = Outcome("UnexpectedIdentifier")
  /\ (ret.op = "load_dir" /\ lastMut[ret.n].kind = "header")
       => /\ RetLoad = Outcome("UnexpectedIdentifier")
          /\ getFilePath(ret.n) \in DOMAIN files
          /\ files[getFilePath(ret.n)] = fileHeaderBytes

\* a load_dir of an inode made by create_file has just failed that way
C7_Witness ==
  /\ ret.op = "load_dir" /\ ret.tag = "UnexpectedIdentifier"
  /\ lastMut[ret.n].kind = "header" /\ ret.n \in ever

\* C11: when create_file(n) has just failed with Exists, the file at
\* path(n) is still there with the content its last writer gave it: the
\* directory file of save_dir(n, d), which load_dir(n) decodes to d, or the
\* header of the earlier create_file(n).
C11_CreateExists ==
  (ret.op = "create_file" /\ ret.tag = "Exists") =>
    LET n == ret.n
        path == getFilePath(n)
    IN  /\ path \in DOMAIN files
        /\ lastMut[n].kind \in { "save", "header" }
        /\ lastMut[n].kind = "save"
             => /\ files[path] = dirFileBytes(lastMut[n].d)
                /\ loadOverlayDir(files, n) = [tag |-> "ok", entries |-> lastMut[n].d]
        /\ lastMut[n].kind = "header" => files[path] = fileHeaderBytes

\* create_file(n) has just failed with Exists on the directory file that
\* save_dir(n, DirA) wrote
C11_Witness ==
  /\ ret.op = "create_file" /\ ret.tag = "Exists"
  /\ lastMut[ret.n] = Mut("save", DirA)
  /\ getFilePath(ret.n) \in DOMAIN files

\* C13: when a thread is back from save_dir(n, d) and another is back from a
\* remove(n) that ran while a save_dir(n, ...) was in progress, the file at
\* path(n) is absent, and load_dir(n) returns none, or it is the complete
\* directory file of d, and load_dir(n) returns d; the load_dir just executed
\* on n returned the same; and every other inode's file is as the last
\* completed operation on that inode left it.
C13_RemoveDuringSave ==
  \A t1, t2 \in Threads :
    (/\ th[t1].pc = "save_done"
     /\ th[t2].pc = "remove_done"
     /\ th[t2].raced
     /\ th[t1].n = th[t2].n)
    => LET n == th[t1].n
           path == getFilePath(n)
           r == loadOverlayDir(files, n)
       IN  /\ \/ path \notin DOMAIN files /\ r = Outcome("none")
              \/ /\ path \in DOMAIN files
                 /\ files[path] = dirFileBytes(th[t1].d)
                 /\ r = [tag |-> "ok", entries |-> th[t1].d]
           /\ (ret.op = "load_dir" /\ ret.n = n) => RetLoad = r
           /\ \A m \in AllInodes \ { n } :
                /\ lastMut[m].kind # "create"
                /\ AgreesWith(loadOverlayDir(files, m), lastMut[m])

\* the remove unlinked the file while the save_dir of the other thread was
\* between its write and its rename; both are back, the file holds DirA and a
\* load_dir has returned DirA
C13_Witness ==
  /\ th["T1"].pc = "save_done" /\ th["T1"].d = DirA
  /\ th["T2"].pc = "remove_done" /\ th["T2"].raced
  /\ th["T1"].n = th["T2"].n
  /\ ret.op = "load_dir" /\ ret.n = th["T1"].n
  /\ ret.tag = "ok" /\ ret.entries = DirA

\* C14: when the thread is back from a save_dir(n, d) whose rename replaced
\* a file of the file kind (one made by create_file(n)), the file at path(n)
\* is the directory file of d, it begins with the directory identifier, and
\* load_dir(n) returns d, as did a load_dir(n) just executed.
C14_SaveOverwritesFile ==
  \A t \in Threads :
    (th[t].pc = "save_done" /\ th[t].over = "file") =>
      LET n == th[t].n
          path == getFilePath(n)
      IN  /\ path \in DOMAIN files
          /\ files[path] = dirFileBytes(th[t].d)
          /\ SubSeq(files[path], 1, 8) = << 79, 86, 68, 82, 0, 0, 0, 0 >>
          /\ loadOverlayDir(files, n) = [tag |-> "ok", entries |-> th[t].d]
          /\ (ret.op = "load_dir" /\ ret.n = n)
               => RetLoad = [tag |-> "ok", entries |-> th[t].d]

\* save_dir(n, DirC) has replaced the file made by create_file(n), and a
\* load_dir(n) has returned DirC
C14_Witness ==
  /\ th["T1"].pc = "save_done" /\ th["T1"].over = "file" /\ th["T1"].d = DirC
  /\ th["T1"].n \in ever
  /\ ret.op = "load_dir" /\ ret.n = th["T1"].n
  /\ ret.tag = "ok" /\ ret.entries = DirC

\* C16 (invariant I2): in every state, also between the steps of
\* create_file and save_dir and after a crash at any step, every file at a
\* per-inode path begins with a complete header of 64 bytes whose identifier
\* is the directory or the file identifier and whose version is 1, and a file
\* with the directory identifier holds a listing that decodes.
C16_HeaderInvariant ==
  \A n \in AllInodes :
    getFilePath(n) \in DOMAIN files =>
      LET data == files[getFilePath(n)]
      IN  /\ Len(data) >= 64
          /\ SubSeq(data, 1, 8) \in { << 79, 86, 68, 82, 0, 0, 0, 0 >>,
                                      << 79, 86, 70, 76, 0, 0, 0, 0 >> }
          /\ SubSeq(data, 9, 12) = << 0, 0, 0, 1 >>
          /\ SubSeq(data, 1, 8) = << 79, 86, 68, 82, 0, 0, 0, 0 >>
               => loadOverlayDir(files, n).tag = "ok"

\* C18: when create_file(n) has just returned the error of a failed header
\* write, no file exists at path(n); and as long as that clean-up is the last
\* change of path(n), load_dir(n) returns none, also the one just executed,
\* and path(n) is free for the exclusive create of a next create_file(n).
C18_CreateCleanup ==
  /\ (ret.op = "create_file" /\ ret.tag = "Io")
       => /\ getFilePath(ret.n) \notin DOMAIN files
          /\ lastMut[ret.n].kind = "cleanup"
  /\ \A n \in AllInodes :
       lastMut[n].kind = "cleanup"
         => /\ getFilePath(n) \notin DOMAIN files
            /\ loadOverlayDir(files, n) = Outcome("none")
  /\ (ret.op = "load_dir" /\ lastMut[ret.n].kind = "cleanup")
       => RetLoad = Outcome("none")

\* after a create_file(n) whose header write failed, a load_dir(n) has
\* returned none
C18_Witness ==
  /\ ret.op = "load_dir" /\ ret.tag = "none"
  /\ lastMut[ret.n].kind = "cleanup"
  /\ getFilePath(ret.n) \notin DOMAIN files

(***************************************************************************)
(* file_path: Overlay::getFilePath applied to two inode numbers.           *)
(***************************************************************************)
PathInodes == 0..MaxPathInode \cup { 511, 512, 4095, 65537, 999999 }
PathPeers == { 0, 1, 2, 10, 16, 17, 171, 255, 256, 257, 258, 427, 512, 65537, 999999 }

PathInit ==
  /\ pin \in PathInodes \X PathPeers
  /\ pout = << >>
  /\ OpenedInit
  /\ files = << >>
  /\ th = AllIdle
  /\ ret = NoRet
  /\ lastMut = [n \in AllInodes |-> Mut("init", << >>)]
  /\ ever = { }
  /\ crashed = AllIdle
  /\ crashes = 0

FilePath ==
  /\ pout = << >>
  /\ pout' = << getFilePath(pin[1]), getFilePath(pin[2]) >>
  /\ UNCHANGED << pin, storeVars, openVars >>

NextPath == FilePath
SpecPath == PathInit /\ [][NextPath]_vars

LowerHex == << "0", "1", "2", "3", "4", "5", "6", "7",
               "8", "9", "a", "b", "c", "d", "e", "f" >>

\* the two lowercase hex digits of n & 0xFF, high nibble first
LowByteHex(n) ==
  LET b == n % 256 IN << LowerHex[(b \div 16) + 1], LowerHex[(b % 16) + 1] >>

\* name is the decimal numeral of n: as many digits as n has, digit i being
\* the i-th decimal digit of n
IsDecimalOf(name, n) ==
  LET k == Len(name)
  IN  /\ k >= 1
      /\ n < 10 ^ k
      /\ (k > 1 => n >= 10 ^ (k - 1))
      /\ \A i \in 1..k : name[i] = DecDigits[((n \div (10 ^ (k - i))) % 10) + 1]

\* C10: file_path(n) is <root>/<shard>/<decimal n>, the shard being the two
\* lowercase hex digits of the low byte of n, high nibble first; two distinct
\* inode numbers get distinct paths and equal ones the same path.
C10_FilePath ==
  pout # << >> =>
    /\ \A i \in 1..2 :
         /\ Len(pout[i]) = 3
         /\ pout[i][1] = LocalDir
         /\ pout[i][2] = LowByteHex(pin[i])
         /\ IsDecimalOf(pout[i][3], pin[i])
    /\ (pin[1] # pin[2]) => (pout[1] # pout[2])
    /\ (pin[1] = pin[2]) => (pout[1] = pout[2])

\* inodes 171 and 427 share the shard "ab" and get different paths
C10_Witness ==
  /\ pin = << 171, 427 >>
  /\ pout # << >>
  /\ pout[1][2] = << "a", "b" >> /\ pout[2][2] = << "a", "b" >>
  /\ pout[1][3] = << "1", "7", "1" >> /\ pout[2][3] = << "4", "2", "7" >>

(***************************************************************************)
(* The steps of open(root).                                                *)
(***************************************************************************)
\* Overlay::readExistingOverlay on a descriptor of a file holding `data`:
\* readFull of kInfoHeaderSize bytes, the magic, the big-endian version
readExistingOverlay(data) ==
  IF Len(data) < kInfoHeaderSize THEN "TruncatedInfo"
  ELSE IF SubSeq(data, 1, Len(kInfoHeaderMagic)) # kInfoHeaderMagic
  THEN "BadInfoMagic"
  ELSE IF readBE32(SubSeq(data, Len(kInfoHeaderMagic) + 1, kInfoHeaderSize))
            # kOverlayVersion
  THEN "UnsupportedVersion"
  ELSE "ok"

\* whether another process holds the overlay open
HeldByOther(p) == \E q \in Procs \ { p } : proc[q].pc = "open"

\* File::try_lock, flock(LOCK_EX | LOCK_NB): granted unless another open
\* file description holds a lock on the same file
tryLock(p) ==
  \A q \in Procs \ { p } : ~(proc[q].locked /\ proc[q].fd = proc[p].fd)

\* isOldFormatOverlay() is true: initOverlay throws
CheckLegacyFail(p) ==
  /\ proc[p].pc \in { "idle", "failed" }
  /\ hasTree
  /\ proc' = [proc EXCEPT ![p] = [IdleProc EXCEPT !.pc = "failed",
                                                  !.res = "LegacyFormat"]]
  /\ UNCHANGED << hasTree, rootExists, shards, rootFiles, fileData, nextId,
                  storeVars, pathVars >>

\* initOverlay without the check for the old format
CheckLegacySkipped(p) ==
  /\ proc[p].pc \in { "idle", "failed" }
  /\ proc' = [proc EXCEPT ![p] = [IdleProc EXCEPT !.pc = "open_info",
                                                  !.under = HeldByOther(p)]]
  /\ UNCHANGED << hasTree, rootExists, shards, rootFiles, fileData, nextId,
                  storeVars, pathVars >>

\* isOldFormatOverlay() is false
CheckLegacyOk(p) ==
  /\ proc[p].pc \in { "idle", "failed" }
  /\ ~hasTree
  /\ proc' = [proc EXCEPT ![p] = [IdleProc EXCEPT !.pc = "open_info",
                                                  !.under = HeldByOther(p)]]
  /\ UNCHANGED << hasTree, rootExists, shards, rootFiles, fileData, nextId,
                  storeVars, pathVars >>

\* folly::openNoInt(infoPath, O_RDONLY) succeeds: infoFile_ = File{fd, true}
OpenInfoExisting(p) ==
  /\ proc[p].pc = "open_info"
  /\ infoPath \in DOMAIN rootFiles
  /\ proc' = [proc EXCEPT ![p].pc = "read_info", ![p].fd = rootFiles[infoPath]]
  /\ UNCHANGED << hasTree, rootExists, shards, rootFiles, fileData, nextId,
                  storeVars, pathVars >>

\* folly::openNoInt fails with ENOENT: initNewOverlay is next
OpenInfoMissing(p) ==
  /\ proc[p].pc = "open_info"
  /\ infoPath \notin DOMAIN rootFiles
  /\ proc' = [proc EXCEPT ![p].pc = "mkdir_root"]
  /\ UNCHANGED << hasTree, rootExists, shards, rootFiles, fileData, nextId,
                  storeVars, pathVars >>

\* readExistingOverlay returns
ReadValid(p) ==
  /\ proc[p].pc = "read_info"
  /\ readExistingOverlay(fileData[proc[p].fd]) = "ok"
  /\ proc' = [proc EXCEPT ![p].pc = "lock"]
  /\ UNCHANGED << hasTree, rootExists, shards, rootFiles, fileData, nextId,
                  storeVars, pathVars >>

\* readExistingOverlay throws: the constructor unwinds and closes infoFile_
ReadInvalid(p) ==
  /\ proc[p].pc = "read_info"
  /\ readExistingOverlay(fileData[proc[p].fd]) # "ok"
  /\ proc' = [proc EXCEPT ![p] =
                [IdleProc EXCEPT !.pc = "failed",
                                 !.res = readExistingOverlay(fileData[proc[p].fd]),
                                 !.under = proc[p].under]]
  /\ UNCHANGED << hasTree, rootExists, shards, rootFiles, fileData, nextId,
                  storeVars, pathVars >>

\* initNewOverlay: ::mkdir(localDir_), EEXIST ignored
MkdirRoot(p) ==
  /\ proc[p].pc = "mkdir_root"
  /\ rootExists' = TRUE
  /\ proc' = [proc EXCEPT ![p].pc = "shards", ![p].i = 0]
  /\ UNCHANGED << hasTree, shards, rootFiles, fileData, nextId,
                  storeVars, pathVars >>

\* initNewOverlay: one iteration of the loop over the 256 subdirectories,
\* ::mkdirat with EEXIST ignored
MkShard(p) ==
  /\ proc[p].pc = "shards"
  /\ proc[p].i < NumShards
  /\ shards' = shards \cup { formatSubdirPath(proc[p].i) }
  /\ proc' = [proc EXCEPT ![p].i = @ + 1]
  /\ UNCHANGED << hasTree, rootExists, rootFiles, fileData, nextId,
                  storeVars, pathVars >>

\* initNewOverlay: folly::writeFileAtomic creates its temporary file, empty
WriteInfoTemp(p) ==
  /\ proc[p].pc = "shards"
  /\ proc[p].i = NumShards
  /\ \E k \in 1..MaxTemps : TempPath(infoPath, k) \notin DOMAIN rootFiles
  /\ LET tmp == mkstemp(rootFiles, infoPath)
     IN  /\ rootFiles' = Stored(rootFiles, tmp, nextId)
         /\ proc' = [proc EXCEPT ![p].pc = "write_info", ![p].tmp = tmp]
  /\ fileData' = Stored(fileData, nextId, << >>)
  /\ nextId' = nextId + 1
  /\ UNCHANGED << hasTree, rootExists, shards, storeVars, pathVars >>

\* initNewOverlay: folly::writeFileAtomic writes infoHeader to the temporary file
WriteInfoData(p) ==
  /\ proc[p].pc = "write_info"
  /\ fileData' = Stored(fileData, rootFiles[proc[p].tmp], infoHeader)
  /\ proc' = [proc EXCEPT ![p].pc = "rename_info"]
  /\ UNCHANGED << hasTree, rootExists, shards, rootFiles, nextId,
                  storeVars, pathVars >>

\* initNewOverlay: folly::writeFileAtomic renames the temporary file to info
RenameInfo(p) ==
  /\ proc[p].pc = "rename_info"
  /\ rootFiles' = Stored(Unlinked(rootFiles, proc[p].tmp), infoPath,
                         rootFiles[proc[p].tmp])
  /\ proc' = [proc EXCEPT ![p].pc = "reopen_info", ![p].tmp = << >>]
  /\ UNCHANGED << hasTree, rootExists, shards, fileData, nextId,
                  storeVars, pathVars >>

\* infoFile_ = File{infoPath, O_RDONLY} after initNewOverlay
ReopenInfo(p) ==
  /\ proc[p].pc = "reopen_info"
  /\ infoPath \in DOMAIN rootFiles
  /\ proc' = [proc EXCEPT ![p].pc = "lock", ![p].fd = rootFiles[infoPath]]
  /\ UNCHANGED << hasTree, rootExists, shards, rootFiles, fileData, nextId,
                  storeVars, pathVars >>

\* infoFile_.try_lock() succeeds: the constructor returns
LockOk(p) ==
  /\ proc[p].pc = "lock"
  /\ tryLock(p)
  /\ proc' = [proc EXCEPT ![p].pc = "open", ![p].locked = TRUE]
  /\ UNCHANGED << hasTree, rootExists, shards, rootFiles, fileData, nextId,
                  storeVars, pathVars >>

\* infoFile_.try_lock() fails: initOverlay throws at once
LockFail(p) ==
  /\ proc[p].pc = "lock"
  /\ ~tryLock(p)
  /\ proc' = [proc EXCEPT ![p] = [IdleProc EXCEPT !.pc = "failed",
                                                  !.res = "AlreadyOpen",
                                                  !.under = proc[p].under]]
  /\ UNCHANGED << hasTree, rootExists, shards, rootFiles, fileData, nextId,
                  storeVars, pathVars >>

\* the Overlay is destroyed or its process exits: the descriptor is closed,
\* which releases the lock.  A call of another process that began under this
\* holder no longer runs under a holder.
Close(p) ==
  /\ proc[p].pc = "open"
  /\ proc' = [q \in Procs |->
                IF q = p THEN IdleProc
                ELSE IF proc[q].pc \in { "idle", "failed", "open" } THEN proc[q]
                ELSE [proc[q] EXCEPT !.under = FALSE]]
  /\ UNCHANGED << hasTree, rootExists, shards, rootFiles, fileData, nextId,
                  storeVars, pathVars >>

\* info files an existing overlay may hold: the one initNewOverlay writes,
\* and ones truncated or overwritten from outside, among them the 8 bytes
\* ED E0 00 01 00 00 00 01 and those 8 bytes with a changed magic or version
InfoSamples ==
  { infoHeader,
    infoHeader \o << 0 >>,
    SubSeq(infoHeader, 1, 5),
    << >>,
    << 237, 225 >> \o writeBE32(kOverlayVersion),
    kInfoHeaderMagic \o writeBE32(kOverlayVersion + 1),
    << 237, 224, 0, 1, 0, 0, 0, 1 >>,
    << 237, 224, 0, 1, 0, 0, 0 >>,
    << 237, 224, 0, 2, 0, 0, 0, 1 >>,
    << 237, 224, 0, 1, 0, 0, 0, 2 >>,
    << 0, 0, 0, 0, 0, 0, 0, 0 >> }

OpenInit ==
  /\ hasTree \in BOOLEAN
  /\ \/ /\ rootExists \in { b \in BOOLEAN : hasTree => b }
        /\ shards = { }
        /\ rootFiles = << >>
        /\ fileData = << >>
        /\ nextId = 1
     \/ /\ rootExists = TRUE
        /\ shards = ShardNames
        /\ rootFiles = (infoPath :> 1)
        /\ fileData \in { (1 :> data) : data \in InfoSamples }
        /\ nextId = 2
  /\ proc = [p \in Procs |-> IdleProc]
  /\ files = << >>
  /\ th = AllIdle
  /\ ret = NoRet
  /\ lastMut = [n \in AllInodes |-> Mut("init", << >>)]
  /\ ever = { }
  /\ crashed = AllIdle
  /\ crashes = 0
  /\ pin = << 0, 0 >>
  /\ pout = << >>

NextOpen ==
  \E p \in Procs :
    \/ CheckLegacyFail(p)
    \/ CheckLegacyOk(p)
    \/ OpenInfoExisting(p)
    \/ OpenInfoMissing(p)
    \/ ReadValid(p)
    \/ ReadInvalid(p)
    \/ MkdirRoot(p)
    \/ MkShard(p)
    \/ WriteInfoTemp(p)
    \/ WriteInfoData(p)
    \/ RenameInfo(p)
    \/ ReopenInfo(p)
    \/ LockOk(p)
    \/ LockFail(p)
    \/ Close(p)
SpecOpen == OpenInit /\ [][NextOpen]_vars

(***************************************************************************)
(* open(root) by a process that may die at any step and start again.       *)
(***************************************************************************)
\* the process dies inside initOverlay: its descriptor is closed, whatever
\* it has made under the root stays
OpenCrash(p) ==
  /\ crashes < MaxCrashes
  /\ proc[p].pc \notin { "idle", "failed", "open" }
  /\ proc' = [proc EXCEPT ![p] = IdleProc]
  /\ crashes' = crashes + 1
  /\ UNCHANGED << hasTree, rootExists, shards, rootFiles, fileData, nextId,
                  files, th, ret, lastMut, ever, crashed, pathVars >>

\* a root that is not formatted: no info file, no shard directory
OpenCrashInit ==
  /\ hasTree = FALSE
  /\ rootExists \in BOOLEAN
  /\ shards = { }
  /\ rootFiles = << >>
  /\ fileData = << >>
  /\ nextId = 1
  /\ proc = [p \in Procs |-> IdleProc]
  /\ files = << >>
  /\ th = AllIdle
  /\ ret = NoRet
  /\ lastMut = [n \in AllInodes |-> Mut("init", << >>)]
  /\ ever = { }
  /\ crashed = AllIdle
  /\ crashes = 0
  /\ pin = << 0, 0 >>
  /\ pout = << >>

NextOpenCrash ==
  \/ CheckLegacyOk("P1")
  \/ OpenInfoExisting("P1")
  \/ OpenInfoMissing("P1")
  \/ ReadValid("P1")
  \/ MkdirRoot("P1")
  \/ MkShard("P1")
  \/ WriteInfoTemp("P1")
  \/ WriteInfoData("P1")
  \/ RenameInfo("P1")
  \/ ReopenInfo("P1")
  \/ LockOk("P1")
  \/ Close("P1")
  \/ OpenCrash("P1")
SpecOpenCrash == OpenCrashInit /\ [][NextOpenCrash]_vars

(***************************************************************************)
(* Claims about open(root).                                                *)
(***************************************************************************)
\* C2: of two processes that call open(root) on the same root, formatted or
\* not, at most one holds the overlay open: in no reachable state are two
\* processes both past a successful lock attempt.
C2_MutualExclusion ==
  \A p \in Procs : \A q \in Procs \ { p } :
    proc[p].pc = "open" => proc[q].pc # "open"

\* C8: a call of open(root) that ran from its first step to its last while
\* another process held the overlay open did not succeed, and it failed
\* with AlreadyOpen.
C8_LockLifetime ==
  \A p \in Procs :
    proc[p].under =>
      /\ proc[p].pc # "open"
      /\ proc[p].pc = "failed" => proc[p].res = "AlreadyOpen"

\* the content of the info file
InfoData == fileData[rootFiles[infoPath]]

\* at least 8 bytes
InfoLongEnough(data) == Len(data) >= 8

\* the first 4 bytes are ED E0 00 01
InfoMagicOk(data) == Len(data) >= 4 /\ SubSeq(data, 1, 4) = << 237, 224, 0, 1 >>

\* the next 4 bytes are the number 1, big-endian
InfoVersionOk(data) == Len(data) >= 8 /\ SubSeq(data, 5, 8) = << 0, 0, 0, 1 >>

CorruptInfo == { "TruncatedInfo", "BadInfoMagic" }

\* C9: on a root whose info file exists (and that is not of the legacy
\* format), open succeeds only if the file has 8 bytes, the magic and
\* version 1; a truncated file or a wrong magic fails with CorruptInfo, a
\* version other than 1 with UnsupportedVersion; and when the file is not
\* valid no process holds a lock or a descriptor after failing and the root
\* is as it was: the info file alone beside the 256 shards, nothing written.
C9_InfoValidation ==
  (infoPath \in DOMAIN rootFiles /\ ~hasTree) =>
    LET data == InfoData
        valid == InfoLongEnough(data) /\ InfoMagicOk(data) /\ InfoVersionOk(data)
    IN  /\ \A p \in Procs : proc[p].pc = "open" => valid
        /\ (~InfoLongEnough(data) \/ ~InfoMagicOk(data)) =>
             \A p \in Procs :
               proc[p].pc = "failed" => proc[p].res \in CorruptInfo
        /\ (InfoLongEnough(data) /\ InfoMagicOk(data) /\ ~InfoVersionOk(data)) =>
             \A p \in Procs :
               proc[p].pc = "failed" => proc[p].res = "UnsupportedVersion"
        /\ ~valid =>
             /\ \A p \in Procs :
                  /\ ~proc[p].locked
                  /\ proc[p].pc = "failed" => proc[p].fd = 0
             /\ rootFiles = (infoPath :> 1)
             /\ fileData = (1 :> data)
             /\ shards = ShardNames
             /\ rootExists
             /\ nextId = 2
             /\ files = << >>

\* a process has opened the overlay on the 6-byte info file that
\* initNewOverlay writes
InfoSixBytesOpened ==
  /\ infoPath \in DOMAIN rootFiles
  /\ InfoData = << 237, 224, 0, 0, 0, 1 >>
  /\ \E p \in Procs : proc[p].pc = "open"

\* on the 8 bytes ED E0 00 01 00 00 00 01 a process has failed, its version
\* being read from bytes 3 to 6
InfoEightBytesRejected ==
  /\ infoPath \in DOMAIN rootFiles
  /\ ~hasTree
  /\ InfoData = << 237, 224, 0, 1, 0, 0, 0, 1 >>
  /\ \E p \in Procs : proc[p].pc = "failed" /\ proc[p].res = "UnsupportedVersion"

\* C20: while the root holds an entry named tree, no process gets past the
\* first step of open: a call that has returned failed with LegacyFormat,
\* whether or not an info file exists; no process holds a descriptor or the
\* lock; and the root is as it was, either without any shard directory and
\* any file, or with its 256 shard directories and its info file alone, no
\* file having been created.
C20_LegacyGuard ==
  hasTree =>
    /\ \A p \in Procs :
         /\ proc[p].pc \in { "idle", "failed" }
         /\ proc[p].pc = "failed" => proc[p].res = "LegacyFormat"
         /\ ~proc[p].locked
         /\ proc[p].fd = 0
    /\ rootExists
    /\ \/ /\ shards = { }
          /\ rootFiles = << >>
          /\ fileData = << >>
          /\ nextId = 1
       \/ /\ Cardinality(shards) = 256
          /\ DOMAIN rootFiles = { infoPath }
          /\ DOMAIN fileData = { 1 }
          /\ fileData[1] \in InfoSamples
          /\ nextId = 2

\* on a root with an entry named tree and a valid info file both processes
\* have failed with LegacyFormat
C20_Witness ==
  /\ hasTree
  /\ infoPath \in DOMAIN rootFiles
  /\ InfoData = infoHeader
  /\ \A p \in Procs : proc[p].pc = "failed" /\ proc[p].res = "LegacyFormat"

\* the 256 names 00..ff
AllShardNames == { << LowerHex[a], LowerHex[b] >> : a, b \in 1..16 }

\* C12: in every state, also after a crash inside open on an unformatted
\* root, an info file that exists holds exactly the 8 bytes ED E0 00 01
\* 00 00 00 01 and all 256 shard directories exist; and a process that
\* has opened the overlay finds the root in that state.
C12_FormattedRoot ==
  /\ infoPath \in DOMAIN rootFiles =>
       /\ InfoData = << 237, 224, 0, 1, 0, 0, 0, 1 >>
       /\ shards = AllShardNames
       /\ rootExists
  /\ \A p \in Procs : proc[p].pc = "open" => infoPath \in DOMAIN rootFiles

\* what does hold of an info file that exists, also after a crash inside
\* open: it is complete as initNewOverlay writes it, 6 bytes, and all 256
\* shard directories exist
FormattedRootAsWritten ==
  infoPath \in DOMAIN rootFiles =>
    /\ InfoData = << 237, 224, 0, 0, 0, 1 >>
    /\ shards = AllShardNames
    /\ rootExists

(***************************************************************************)
(* max_recorded_inode on an overlay that holds files no listing names.     *)
(***************************************************************************)

ScanInodes == { 1, 2 }
ScanDirs == { DirA, DirC }

\* a formatted overlay this process holds open, with some of the orphans
ScanInit ==
  /\ OpenedInit
  /\ files \in { [q \in S |-> fileHeaderBytes] : S \in SUBSET Orphans }
  /\ th = AllIdle
  /\ ret = NoRet
  /\ lastMut = [n \in AllInodes |-> Mut("init", << >>)]
  /\ ever = { }
  /\ crashed = AllIdle
  /\ crashes = 0
  /\ pin = << 0, 0 >>
  /\ pout = << >>

NextScan ==
  \/ \E n \in ScanInodes, d \in ScanDirs : SaveBegin("T1", n, d)
  \/ SaveWriteFull("T1")
  \/ SaveRename("T1")
  \/ \E n \in ScanInodes : Remove("T1", n)
  \/ \E n \in ScanInodes : CreateBegin("T1", n)
  \/ CreateHeader("T1")
  \/ MaxBegin("T1")
  \/ MaxWalk("T1")
  \/ MaxThrow("T1")
  \/ MaxShards("T1")
SpecScan == ScanInit /\ [][NextScan]_vars

\* the listing last saved for inode n, none when path(n) holds no listing
SavedListing(n) ==
  IF n \in AllInodes /\ lastMut[n].kind = "save" THEN lastMut[n].d ELSE << >>

\* a mode whose file type bits are those of a directory
IsDirectoryMode(mode) == (mode % 65536) \div 4096 = 4

\* the inodes one step below the inodes of R: materialized entries of
\* directory mode in their saved listings
BelowDirs(R) ==
  { SavedListing(n)[i].inode :
      << n, i >> \in { x \in R \X (1..2) :
                         /\ x[2] <= Len(SavedListing(x[1]))
                         /\ SavedListing(x[1])[x[2]].materialized
                         /\ IsDirectoryMode(SavedListing(x[1])[x[2]].mode) } }

\* the directories reachable from the root
ReachableDirs ==
  LET R1 == { 1 } \cup BelowDirs({ 1 })
      R2 == R1 \cup BelowDirs(R1)
  IN  R2 \cup BelowDirs(R2)

\* the inode numbers of the materialized entries of the reachable listings
ReachableEntryInodes ==
  { SavedListing(n)[i].inode :
      << n, i >> \in { x \in ReachableDirs \X (1..2) :
                         /\ x[2] <= Len(SavedListing(x[1]))
                         /\ SavedListing(x[1])[x[2]].materialized } }

AllDigits(name) ==
  /\ Len(name) >= 1
  /\ \A i \in 1..Len(name) : name[i] \in { "0", "1", "2", "3", "4", "5", "6", "7", "8", "9" }

\* the number a name of digits denotes: the sum of its digits times their
\* powers of ten
DecimalValue(name) ==
  LET k == Len(name)
      digit(c) == CHOOSE v \in 0..9 : DecDigits[v + 1] = c
      sum[i \in 0..k] ==
        IF i = 0 THEN 0 ELSE sum[i - 1] + digit(name[i]) * (10 ^ (k - i))
  IN  sum[k]

\* the numbers named by the files of the shard directories
NamedNumbers ==
  { DecimalValue(q[3]) :
      q \in { r \in DOMAIN files : r[2] \in AllShardNames /\ AllDigits(r[3]) } }

\* C15: a value returned by max_recorded_inode is the greatest of the root
\* inode 1, the inode numbers of the materialized entries of the listings
\* reachable from the root through materialized directory entries (a
\* directory without a file contributing nothing), and the numbers named by
\* the files of all shard directories, whatever shard they lie in and
\* whether or not a listing names them; names that are no numbers count
\* for nothing.
C15_ExactMax ==
  (ret.op = "max_recorded_inode" /\ ret.tag = "ok") =>
    LET all == { 1 } \cup ReachableEntryInodes \cup NamedNumbers
    IN  /\ ret.val \in all
        /\ \A v \in all : v <= ret.val

\* with listings saved for inodes 1 and 2, the orphan 999999 in shard 2a and
\* a file with an unparseable name, max_recorded_inode returns 999999
C15_Witness ==
  /\ ret.op = "max_recorded_inode" /\ ret.tag = "ok" /\ ret.val = 999999
  /\ OrphanBig \in DOMAIN files
  /\ OrphanJunk \in DOMAIN files
  /\ lastMut[1] = Mut("save", DirA)
  /\ lastMut[2] = Mut("save", DirC)

(***************************************************************************)
(* load_dir on directory files that were not written by save_dir: a valid  *)
(* header followed by the serialization of arbitrary stored entries.       *)
(***************************************************************************)
\* a hash of the wrong length
HashShort == << 1, 2, 3 >>

\* stored entries (overlay::OverlayEntry) under one name
StoredEntries(name) ==
  { [name |-> name, mode |-> mode, inodeNumber |-> ino, hash |-> hash] :
      mode \in { ModeFile, ModeDir }, ino \in { 0, 2, 258 },
      hash \in { << >>, HashAA, HashShort } }

\* stored listings (overlay::OverlayDir) of one or two entries
StoredDirs ==
  { << e >> : e \in StoredEntries(NameA) }
    \cup { << e1, e2 >> : e1 \in StoredEntries(NameA), e2 \in StoredEntries(NameB) }

\* the directory file holding the stored listing odir
storedDirBytes(odir) ==
  createHeader(kHeaderIdentifierDir, kHeaderVersion, zeroTime, zeroTime, zeroTime)
    \o CompactSerialize(odir)

LoadInodes == { 1, 258 }

\* an opened overlay with one directory file, which holds a stored listing
LoadInit ==
  /\ OpenedInit
  /\ \E n \in LoadInodes, odir \in StoredDirs :
       /\ files = (getFilePath(n) :> storedDirBytes(odir))
       /\ lastMut = [m \in AllInodes |->
                       IF m = n THEN Mut("stored", odir) ELSE Mut("init", << >>)]
  /\ th = AllIdle
  /\ ret = NoRet
  /\ ever = { }
  /\ crashed = AllIdle
  /\ crashes = 0
  /\ pin = << 0, 0 >>
  /\ pout = << >>

NextLoad == \E n \in LoadInodes : LoadDir("T1", n)
SpecLoad == LoadInit /\ [][NextLoad]_vars

\* a stored entry that is of neither form: an inode number together with a
\* hash, or neither of them
ViolatesI1(oent) ==
  \/ oent.inodeNumber # 0 /\ Len(oent.hash) > 0
  \/ oent.inodeNumber = 0 /\ Len(oent.hash) = 0

\* C17: a load_dir(n) of a directory file with a valid header whose stored
\* listing has an entry violating I1 fails with a corruption error; it
\* returns neither a listing nor none.
C17_CorruptDir ==
  (/\ ret.op = "load_dir"
   /\ lastMut[ret.n].kind = "stored"
   /\ \E i \in 1..Len(lastMut[ret.n].d) : ViolatesI1(lastMut[ret.n].d[i]))
  => ret.tag \in { "InvalidHash", "DeserializeError" }

(***************************************************************************)
(* Two threads of one process, each operation on either of two inodes of   *)
(* the same shard; thread T2 also calls max_recorded_inode, whose steps    *)
(* interleave with the operations of T1.                                   *)
(***************************************************************************)
IndepInodes == { 2, 258 }
IndepDirs == { DirA }
NextIndep ==
  \E t \in Threads :
    \/ \E n \in IndepInodes, d \in IndepDirs : SaveBegin(t, n, d)
    \/ SaveWriteFull(t)
    \/ SaveRename(t)
    \/ \E n \in IndepInodes : LoadDir(t, n)
    \/ \E n \in IndepInodes : Remove(t, n)
    \/ \E n \in IndepInodes : CreateExists(t, n)
    \/ \E n \in IndepInodes : CreateBegin(t, n)
    \/ CreateHeader(t)
    \/ CreateFail(t)
    \/ t = "T2" /\ MaxBegin(t)
    \/ t = "T2" /\ MaxWalk(t)
    \/ t = "T2" /\ MaxShards(t)
SpecIndep == StoreInit /\ [][NextIndep]_vars

\* the step changes whether path(m) exists, what it holds, or what
\* load_dir(m) returns
ChangesInode(m) ==
  \/ (getFilePath(m) \in DOMAIN files) # (getFilePath(m) \in DOMAIN files')
  \/ /\ getFilePath(m) \in DOMAIN files
     /\ getFilePath(m) \in DOMAIN files'
     /\ files'[getFilePath(m)] # files[getFilePath(m)]
  \/ loadOverlayDir(files', m) # loadOverlayDir(files, m)

\* the inode of the operation that thread t begins, continues or ends in
\* the step
OpInode(t) == IF th[t].pc \in IdlePcs THEN th'[t].n ELSE th[t].n

\* the step is one of an operation on inode m: the operation returns in it,
\* or a thread's position in an operation on m changes
StepOn(m) ==
  \/ ret'.op \in { "save_dir", "create_file", "remove", "load_dir" } /\ ret'.n = m
  \/ \E t \in Threads : th'[t] # th[t] /\ OpInode(t) = m

\* the step belongs to a load_dir or to a max_recorded_inode
ReadOnlyStep ==
  \/ ret'.op \in { "load_dir", "max_recorded_inode" }
  \/ \E t \in Threads :
       th'[t] # th[t] /\ (th[t].pc = "scan_walk" \/ th'[t].pc = "scan_walk")

\* C19: a step of save_dir, create_file, remove or load_dir on inode n,
\* succeeding or failing, interleaved in any way with the steps of another
\* thread, changes the existence, the content and the load_dir outcome of
\* path(m) only for m = n; and a step of load_dir or max_recorded_inode
\* changes no file.
C19_Independence ==
  [][/\ \A m \in AllInodes : ChangesInode(m) => StepOn(m)
     /\ \A n, m \in AllInodes : (StepOn(n) /\ m # n) => ~ChangesInode(m)
     /\ ReadOnlyStep => files' = files]_vars

\* inode 2 holds the listing DirA and a load_dir of it has returned DirA
\* while the other thread is inside create_file(258), whose file lies in the
\* same shard, and has created it
C19_Witness ==
  /\ th["T2"].pc = "create_hdr" /\ th["T2"].n = 258
  /\ getFilePath(258) \in DOMAIN files
  /\ th["T1"].pc = "save_done" /\ th["T1"].n = 2
  /\ ret.op = "load_dir" /\ ret.n = 2 /\ ret.tag = "ok" /\ ret.entries = DirA

(***************************************************************************)
(* Termination of max_recorded_inode: the walk of getMaxRecordedInode on   *)
(* listings whose directory entries name their own inode, an ancestor, or  *)
(* an inode that another listing names too.                                *)
(***************************************************************************)
\* {"a" -> materialized directory 2, "b" -> materialized directory 258}
DirD == << EntryFromInode(NameA, ModeDir, 2), EntryFromInode(NameB, ModeDir, 258) >>
\* {"a" -> materialized directory 258}
DirE == << EntryFromInode(NameA, ModeDir, 258) >>
\* {"a" -> materialized directory 2}
DirF == << EntryFromInode(NameA, ModeDir, 2) >>

TermInodes == { 1, 2, 258 }
TermDirs == { DirB, DirD, DirE, DirF }

\* one thread: nothing changes the store while the walk runs
NextTerm ==
  \/ \E n \in TermInodes, d \in TermDirs : SaveBegin("T1", n, d)
  \/ SaveWriteFull("T1")
  \/ SaveRename("T1")
  \/ \E n \in TermInodes : Remove("T1", n)
  \/ \E n \in TermInodes : CreateBegin("T1", n)
  \/ CreateHeader("T1")
  \/ MaxBegin("T1")
  \/ MaxWalk("T1")
  \/ MaxThrow("T1")
  \/ MaxShards("T1")

\* the stacks toProcess can hold within the bound
WalkStacks ==
  UNION { [1..k -> TermInodes] : k \in 0..MaxStack }

\* what thread T1 can be after a step taken inside getMaxRecordedInode: in
\* the loop with some stack and maximum, or back at its caller
WalkRecords ==
  { IdleThread } \cup
  { [IdleThread EXCEPT !.pc = "scan_walk", !.stack = st, !.max = m, !.iter = i,
                       !.shard = sh] :
      st \in WalkStacks, m \in TermInodes, i \in 0..1,
      sh \in { 0 } \cup FileShards }

\* thread T1, inside getMaxRecordedInode, takes its next step: another
\* iteration of the loop, the exception, or the shard scan and the return.
\* The steps of NextTerm from a state inside the walk are exactly these
\* (MaxWalk, MaxThrow, MaxShards), and each of them changes T1.
WalkRuns ==
  /\ th["T1"].pc = "scan_walk"
  /\ \E r \in WalkRecords : th' = [th EXCEPT !["T1"] = r]

\* a thread inside getMaxRecordedInode keeps running: it is not suspended
\* for ever between two steps
WalkFairness == WF_th(WalkRuns)

SpecTerm == StoreInit /\ [][NextTerm]_vars /\ WalkFairness

\* the inodes on a path of materialized directory entries that starts at n
BelowClosure(n) ==
  LET B1 == BelowDirs({ n })
      B2 == B1 \cup BelowDirs(B1)
  IN  B2 \cup BelowDirs(B2)

\* a directory reachable from the root lies below itself
CycleReachable == \E n \in ReachableDirs : n \in BelowClosure(n)

\* C21: a call of max_recorded_inode that has begun returns or throws, on
\* every overlay state that save_dir, create_file and remove can produce:
\* also when a saved listing has a directory-mode entry naming the
\* listing's own inode or an ancestor, or when several listings name the
\* same directory inode.
C21_Terminates ==
  (th["T1"].pc = "scan_walk") ~> (th["T1"].pc # "scan_walk")

\* what the walk does guarantee: it ends when no reachable directory lies
\* below itself, also when several listings name the same directory
WalkTerminatesWithoutCycle ==
  (th["T1"].pc = "scan_walk" /\ ~CycleReachable) ~> (th["T1"].pc # "scan_walk")

\* the walk has returned on an overlay in which the listings of inodes 1
\* and 2 both name directory 258
SharedDirWalked ==
  /\ lastMut[1] = Mut("save", DirD)
  /\ lastMut[2] = Mut("save", DirE)
  /\ ret.op = "max_recorded_inode" /\ ret.tag = "ok" /\ ret.val = 258

\* the walk is at the root again, after at least one iteration, on an
\* overlay whose root listing names the root itself as a directory
WalkBackAtRoot ==
  /\ lastMut[1] = Mut("save", DirB)
  /\ th["T1"].pc = "scan_walk"
  /\ th["T1"].stack = << FUSE_ROOT_ID >>
  /\ th["T1"].iter = 1

=============================================================================
